---- MODULE Spec2Model ----
(***************************************************************************)
(* A model of envguard-nextjs (src/src/index.ts): the layered .env loader, *)
(* the merge with the live process environment, schema validation, the     *)
(* process-wide runtime cache and the client/server schema helpers.        *)
(*                                                                         *)
(* A JavaScript string is a sequence of one-character strings, a           *)
(* Record<string, string> is a function whose domain is a finite set of    *)
(* such strings, and an object reference is an index into the heap.        *)
(***************************************************************************)
EXTENDS Naturals, Integers, Sequences, FiniteSets, TLC

VARIABLES
    processEnv,     \* process.env: a mapping; an unset variable is absent
    files,          \* the working directory: path |-> file text
    heap,           \* the objects allocated so far (a reference is an index)
    runtimeEnv,     \* index.ts:5, a reference into the heap
    isInitialized,  \* index.ts:6
    exitCode,       \* Running, or the code given to process.exit
    last,           \* what the last public call did and handed back
    returnedBy,     \* per heap object: the public calls that handed it out
    stored,         \* history: the content written by the last index.ts:28
    firstRef,       \* history: the reference written by the first index.ts:28
    succeeded,      \* history: some initEnv call has returned normally
    aliasWritten,   \* history: a caller wrote through a value initEnv returned
    copyWritten,    \* history: a caller wrote through a value getEnv returned
    writes,         \* history: the number of writes by callers so far
    callArg,        \* argument of the function under test (pure-function runs)
    callResult      \* its result, <<>> before the call

vars == <<processEnv, files, heap, runtimeEnv, isInitialized, exitCode, last,
          returnedBy, stored, firstRef, succeeded, aliasWritten, copyWritten,
          writes, callArg, callResult>>

cacheVars == <<heap, runtimeEnv, isInitialized, exitCode, last, returnedBy,
               stored, firstRef, succeeded, aliasWritten, copyWritten,
               writes>>

----------------------------------------------------------------------------
(* Strings *)

EmptyObject == [k \in {} |-> <<>>]

\* String.prototype.trim removes white space and line terminators.
IsSpace(c) == c \in {" ", "\t", "\r", "\n"}

RECURSIVE TrimStart(_)
TrimStart(s) ==
    IF s # <<>> /\ IsSpace(Head(s)) THEN TrimStart(Tail(s)) ELSE s

RECURSIVE TrimEnd(_)
TrimEnd(s) ==
    IF s # <<>> /\ IsSpace(s[Len(s)])
    THEN TrimEnd(SubSeq(s, 1, Len(s) - 1))
    ELSE s

Trim(s) == TrimEnd(TrimStart(s))

StartsWith(s, p) == Len(p) <= Len(s) /\ SubSeq(s, 1, Len(p)) = p

EndsWith(s, p) ==
    Len(p) <= Len(s) /\ SubSeq(s, Len(s) - Len(p) + 1, Len(s)) = p

\* s.slice(1, -1)
SliceInner(s) == SubSeq(s, 2, Len(s) - 1)

\* The first index of character c in s, 0 when there is none.
RECURSIVE IndexFrom(_, _, _)
IndexFrom(s, c, i) ==
    IF i > Len(s) THEN 0
    ELSE IF s[i] = c THEN i
    ELSE IndexFrom(s, c, i + 1)

IndexOf(s, c) == IndexFrom(s, c, 1)

\* content.split('\n')
RECURSIVE Split(_)
Split(s) ==
    LET i == IndexOf(s, "\n")
    IN  IF i = 0 THEN <<s>>
        ELSE <<SubSeq(s, 1, i - 1)>> \o Split(SubSeq(s, i + 1, Len(s)))

----------------------------------------------------------------------------
(* Mappings *)

\* Object.assign(target, source), and { ...target, ...source }
Assign(target, source) == source @@ target

Has(m, k) == k \in DOMAIN m

----------------------------------------------------------------------------
(* parseEnvFile, index.ts:77-100 *)

existsSync(path) == path \in DOMAIN files

readFileSync(path) == files[path]

\* trimmed.match(/^([^=]+)=(.*)$/): the key group needs one character or
\* more before the first '=', and '.' matches no line terminator.
LineMatches(trimmed) ==
    LET i == IndexOf(trimmed, "=")
    IN  /\ i > 1
        /\ \A j \in (i + 1)..Len(trimmed) : trimmed[j] \notin {"\r", "\n"}

QuoteWrapped(value) ==
    \/ StartsWith(value, <<"\"">>) /\ EndsWith(value, <<"\"">>)
    \/ StartsWith(value, <<"'">>) /\ EndsWith(value, <<"'">>)

Unquote(value) == IF QuoteWrapped(value) THEN SliceInner(value) ELSE value

\* The body of the forEach callback, index.ts:81-97.
ParseLine(env, line) ==
    LET trimmed == Trim(line)
    IN  IF trimmed = <<>> \/ StartsWith(trimmed, <<"#">>) THEN env
        ELSE IF ~LineMatches(trimmed) THEN env
        ELSE LET i     == IndexOf(trimmed, "=")
                 key   == Trim(SubSeq(trimmed, 1, i - 1))
                 value == Trim(SubSeq(trimmed, i + 1, Len(trimmed)))
             IN  Assign(env, key :> Unquote(value))

RECURSIVE ParseLines(_, _)
ParseLines(env, lines) ==
    IF lines = <<>> THEN env
    ELSE ParseLines(ParseLine(env, Head(lines)), Tail(lines))

parseEnvFile(filePath) ==
    ParseLines(EmptyObject, Split(readFileSync(filePath)))

----------------------------------------------------------------------------
(* Names *)

NODE_ENV == <<"N", "O", "D", "E", "_", "E", "N", "V">>

DEVELOPMENT == <<"d", "e", "v", "e", "l", "o", "p", "m", "e", "n", "t">>

PRODUCTION == <<"p", "r", "o", "d", "u", "c", "t", "i", "o", "n">>

TEST == <<"t", "e", "s", "t">>

DotEnv == <<".", "e", "n", "v">>

DotLocal == <<".", "l", "o", "c", "a", "l">>

\* An optional value is <<>> (undefined) or <<v>>.
Undefined == <<>>

\* JavaScript truthiness of an optional string: defined and not empty.
Truthy(opt) == opt # Undefined /\ opt[1] # <<>>

\* process.env.NODE_ENV
NodeEnv == IF Has(processEnv, NODE_ENV) THEN <<processEnv[NODE_ENV]>> ELSE Undefined

----------------------------------------------------------------------------
(* loadEnvVars, index.ts:55-75, and the merge of index.ts:24 *)

\* const mode = process.env.NODE_ENV || 'development'
Mode == IF Truthy(NodeEnv) THEN NodeEnv[1] ELSE DEVELOPMENT

\* A variant of envFiles that lists .env.local before the mode's file.
envFilesLocalFirst(mode) ==
    << DotEnv,
       DotEnv \o DotLocal,
       DotEnv \o <<".">> \o mode,
       DotEnv \o <<".">> \o mode \o DotLocal >>

\* ['.env', `.env.${mode}`, '.env.local', `.env.${mode}.local`]
envFiles(mode) ==
    << DotEnv,
       DotEnv \o <<".">> \o mode,
       DotEnv \o DotLocal,
       DotEnv \o <<".">> \o mode \o DotLocal >>

\* The for loop of index.ts:67-72.
RECURSIVE LoadLayers(_, _)
LoadLayers(env, candidates) ==
    IF candidates = <<>> THEN env
    ELSE LET filePath == Head(candidates)
             next == IF existsSync(filePath)
                     THEN Assign(env, parseEnvFile(filePath))
                     ELSE env
         IN  LoadLayers(next, Tail(candidates))

loadEnvVars(customPath) ==
    IF Truthy(customPath) /\ existsSync(customPath[1])
    THEN Assign(EmptyObject, parseEnvFile(customPath[1]))
    ELSE LoadLayers(EmptyObject, envFiles(Mode))

\* A variant of MergeEnv that spreads the file entries last.
MergeEnvFilesLast(envVars) == Assign(processEnv, envVars)

\* const mergedEnv = { ...envVars, ...process.env }
MergeEnv(envVars) == Assign(envVars, processEnv)

----------------------------------------------------------------------------
(* The schema, index.ts:8-13 and :27.  A schema is z.object(shape) with    *)
(* every field z.string(), or one whose parse throws an error that is not  *)
(* a ZodError (a throwing transform or refinement).  z.object strips the   *)
(* keys it does not declare.                                               *)

RangeOf(seq) == {seq[i] : i \in DOMAIN seq}

\* config.schema.parse(mergedEnv)
SchemaParse(schema, mergedEnv) ==
    IF schema.kind = "throws"
    THEN [ok |-> FALSE, error |-> "other", value |-> EmptyObject]
    ELSE IF \A k \in RangeOf(schema.shape) : Has(mergedEnv, k)
    THEN [ok |-> TRUE, error |-> "none",
          value |-> [k \in RangeOf(schema.shape) |-> mergedEnv[k]]]
    ELSE [ok |-> FALSE, error |-> "zod", value |-> EmptyObject]

----------------------------------------------------------------------------
(* handleValidationError, index.ts:102-127: the code given to process.exit *)

handleValidationError(allowMissingInDev) ==
    LET isDev == NodeEnv = <<DEVELOPMENT>>
    IN  IF allowMissingInDev /\ isDev THEN 0 ELSE 1

----------------------------------------------------------------------------
(* initEnv, index.ts:15-46 *)

\* What a call did: how it ended, the reference it handed back (0: none),
\* the state it left, and which collaborators it invoked.
Outcome(kind, ref, error, h, re, init, exit, loaded, parsed, onErr, rep) ==
    [kind |-> kind, ref |-> ref, error |-> error, heap |-> h,
     runtimeEnv |-> re, isInitialized |-> init, exit |-> exit,
     loaded |-> loaded, parsed |-> parsed, onErrorCalls |-> onErr,
     reporterCalls |-> rep]

\* A variant of AlreadyInitialized with the comparison inverted.
AlreadyInitializedInTest == isInitialized /\ NodeEnv = <<TEST>>

\* index.ts:18
AlreadyInitialized == isInitialized /\ NodeEnv # <<TEST>>

\* A variant of InitEnvCatch that lacks the else: the reporter runs after
\* the handler.
InitEnvCatchAlsoReports(config, error) ==
    IF error = "zod"
    THEN Outcome("exited", 0, "none", heap, runtimeEnv, isInitialized,
                 <<handleValidationError(config.allowMissingInDev)>>,
                 TRUE, TRUE, IF config.onError # "none" THEN 1 ELSE 0, 1)
    ELSE Outcome("threw", 0, error, heap, runtimeEnv, isInitialized,
                 Undefined, TRUE, TRUE, 0, 0)

\* index.ts:36-45, the catch block
InitEnvCatch(config, error) ==
    IF error = "zod"
    THEN IF config.onError # "none"
         THEN Outcome("threw", 0,
                      IF config.onError = "throws" THEN "handler" ELSE "zod",
                      heap, runtimeEnv, isInitialized, Undefined,
                      TRUE, TRUE, 1, 0)
         ELSE Outcome("exited", 0, "none", heap, runtimeEnv, isInitialized,
                      <<handleValidationError(config.allowMissingInDev)>>,
                      TRUE, TRUE, 0, 1)
    ELSE Outcome("threw", 0, error, heap, runtimeEnv, isInitialized,
                 Undefined, TRUE, TRUE, 0, 0)

initEnv(config) ==
    IF AlreadyInitialized
    THEN Outcome("returned", runtimeEnv, "none", heap, runtimeEnv,
                 isInitialized, Undefined, FALSE, FALSE, 0, 0)
    ELSE LET envVars   == loadEnvVars(config.envPath)
             mergedEnv == MergeEnv(envVars)
             result    == SchemaParse(config.schema, mergedEnv)
             validated == Len(heap) + 1
         IN  IF result.ok
             THEN Outcome("returned", validated, "none",
                          Append(heap, result.value), validated, TRUE,
                          Undefined, TRUE, TRUE, 0, 0)
             ELSE InitEnvCatch(config, result.error)

----------------------------------------------------------------------------
(* getEnv, index.ts:48-53 *)

\* A variant of ShallowCopy that hands back the object itself.
ReturnSameObject(h, ref) == [heap |-> h, ref |-> ref]

\* { ...runtimeEnv }: a new object with the same entries
ShallowCopy(h, ref) == [heap |-> Append(h, h[ref]), ref |-> Len(h) + 1]

\* A variant of GetEnvThrows without the check.
GetEnvNeverThrows(init) == FALSE

\* index.ts:49
GetEnvThrows(init) == ~init

getEnv(h, re, init) ==
    IF GetEnvThrows(init)
    THEN Outcome("threw", 0, "uninit", h, re, init, Undefined,
                 FALSE, FALSE, 0, 0)
    ELSE LET copy == ShallowCopy(h, re)
         IN  Outcome("returned", copy.ref, "none", copy.heap, re, init,
                     Undefined, FALSE, FALSE, 0, 0)

----------------------------------------------------------------------------
(* createEnv, index.ts:129-134 *)

createEnv(config) ==
    LET i == initEnv(config)
    IN  IF i.kind # "returned" THEN i
        ELSE LET g == getEnv(i.heap, i.runtimeEnv, i.isInitialized)
             IN  [g EXCEPT !.loaded = i.loaded, !.parsed = i.parsed]

----------------------------------------------------------------------------
(* Bounds and inputs *)

\* The heap holds at most this many objects (the module's {} included).
MaxObjects == 4

\* Callers write to the objects they hold at most this many times.
MaxWrites == 1

KeyA == <<"A">>

KeyB == <<"B">>

CustomPath == <<"c", ".", "e", "n", "v">>

TextA1 == <<"A", "=", "1">>

TextA2B == <<"A", "=", "\"", "2", "\"", "\n", "B", "=", "x">>

TextB3 == <<" ", "B", " ", "=", " ", "3", "\n", "#", "A", "=", "4">>

NodeEnvValues == {<<>>, DEVELOPMENT, PRODUCTION, TEST}

CacheNodeEnvValues == {DEVELOPMENT, TEST}

\* process.env with NODE_ENV unset or one of NodeEnvValues, and with the
\* given other entries.
ProcEnvs(others, modes) ==
    {o : o \in others} \cup
    {Assign(o, NODE_ENV :> m) : o \in others, m \in modes}

CacheProcEnvs == ProcEnvs({EmptyObject}, CacheNodeEnvValues)

CacheFiles == { (DotEnv :> TextA1) @@ (CustomPath :> TextA2B) }

SchemaA == [kind |-> "object", shape |-> <<KeyA>>]

SchemaAB == [kind |-> "object", shape |-> <<KeyA, KeyB>>]

SchemaThrows == [kind |-> "throws", shape |-> <<>>]

NoHandler == [allowMissingInDev |-> FALSE, onError |-> "none"]

Handlers ==
    { NoHandler,
      [allowMissingInDev |-> TRUE, onError |-> "none"],
      [allowMissingInDev |-> FALSE, onError |-> "returns"],
      [allowMissingInDev |-> FALSE, onError |-> "throws"] }

Config(schema, envPath, h) ==
    [schema |-> schema, envPath |-> envPath,
     allowMissingInDev |-> h.allowMissingInDev, onError |-> h.onError]

\* With CacheFiles: SchemaA validates from .env, SchemaAB fails on .env and
\* validates from the custom path.  The handler options are read only when
\* validation fails (index.ts:36-43).
Configs ==
    { Config(SchemaA, Undefined, NoHandler),
      Config(SchemaAB, <<CustomPath>>, NoHandler) }
    \cup { Config(SchemaAB, Undefined, h) : h \in Handlers }
    \cup { Config(SchemaThrows, Undefined, NoHandler) }

\* What a caller can do to an object it holds: overwrite a key, delete a
\* key, add a key.
Writes ==
    { [key |-> KeyA, value |-> <<<<"m">>>>],
      [key |-> KeyA, value |-> Undefined],
      [key |-> <<"Z">>, value |-> <<<<"m">>>>] }

----------------------------------------------------------------------------
(* The state machine of the runtime cache *)

NoCall ==
    [op |-> "none", kind |-> "none", ref |-> 0, error |-> "none",
     config |-> Undefined, loaded |-> FALSE, parsed |-> FALSE,
     onErrorCalls |-> 0, reporterCalls |-> 0]

\* index.ts:5-6: let runtimeEnv = {}; let isInitialized = false
CacheInit ==
    /\ heap = <<EmptyObject>>
    /\ runtimeEnv = 1
    /\ isInitialized = FALSE
    /\ exitCode = Undefined
    /\ last = NoCall
    /\ returnedBy = <<{}>>
    /\ stored = EmptyObject
    /\ firstRef = 0
    /\ succeeded = FALSE
    /\ aliasWritten = FALSE
    /\ copyWritten = FALSE
    /\ writes = 0

Init ==
    /\ processEnv \in CacheProcEnvs
    /\ files \in CacheFiles
    /\ CacheInit
    /\ callArg = Undefined
    /\ callResult = Undefined

\* The state a call leaves, from its outcome o; initOk: an initEnv call
\* returned normally during it.
Finish(op, config, o, initOk) ==
    LET wrote == o.parsed /\ initOk
    IN  /\ Len(o.heap) <= MaxObjects
        /\ heap' = o.heap
        /\ runtimeEnv' = o.runtimeEnv
        /\ isInitialized' = o.isInitialized
        /\ exitCode' = o.exit
        /\ last' = [op |-> op, kind |-> o.kind, ref |-> o.ref,
                    error |-> o.error, config |-> config,
                    loaded |-> o.loaded, parsed |-> o.parsed,
                    onErrorCalls |-> o.onErrorCalls,
                    reporterCalls |-> o.reporterCalls]
        /\ returnedBy' =
             [i \in 1..Len(o.heap) |->
                (IF i <= Len(heap) THEN returnedBy[i] ELSE {}) \cup
                (IF o.kind = "returned" /\ i = o.ref THEN {op} ELSE {})]
        /\ stored' = IF wrote THEN o.heap[o.runtimeEnv] ELSE stored
        /\ firstRef' = IF wrote /\ firstRef = 0 THEN o.runtimeEnv ELSE firstRef
        /\ succeeded' = (succeeded \/ initOk)
        /\ UNCHANGED <<processEnv, files, aliasWritten, copyWritten,
                       writes, callArg, callResult>>

\* No call is made once process.exit has ended the process.
Running == exitCode = Undefined

InitEnv ==
    /\ Running
    /\ \E config \in Configs :
          LET o == initEnv(config)
          IN  Finish("initEnv", <<config>>, o, o.kind = "returned")

GetEnv ==
    /\ Running
    /\ Finish("getEnv", Undefined,
              getEnv(heap, runtimeEnv, isInitialized), FALSE)

CreateEnv ==
    /\ Running
    /\ \E config \in Configs :
          LET o == createEnv(config)
          IN  Finish("createEnv", <<config>>, o,
                     o.kind = "returned" \/ o.error = "uninit")

\* The caller writes to an object some public call handed it.
Mutate ==
    \E ref \in DOMAIN heap, w \in Writes :
        LET old == heap[ref]
            new == IF w.value = Undefined
                   THEN [k \in DOMAIN old \ {w.key} |-> old[k]]
                   ELSE Assign(old, w.key :> w.value[1])
        IN  /\ Running
            /\ returnedBy[ref] # {}
            /\ writes < MaxWrites
            /\ writes' = writes + 1
            /\ heap' = [heap EXCEPT ![ref] = new]
            /\ last' = [NoCall EXCEPT !.op = "mutate", !.ref = ref]
            /\ aliasWritten' = (aliasWritten \/ "initEnv" \in returnedBy[ref])
            /\ copyWritten' =
                 (copyWritten \/ returnedBy[ref] \cap {"getEnv", "createEnv"} # {})
            /\ UNCHANGED <<processEnv, files, runtimeEnv, isInitialized,
                           exitCode, returnedBy, stored, firstRef, succeeded,
                           callArg, callResult>>

Next == InitEnv \/ GetEnv \/ CreateEnv \/ Mutate

Spec == Init /\ [][Next]_vars

----------------------------------------------------------------------------
(* createServerEnv and createClientEnv, index.ts:136-147.  The argument is *)
(* the shape's field names in declaration order.                           *)

NextPublic == <<"N", "E", "X", "T", "_", "P", "U", "B", "L", "I", "C", "_">>

DigitValue ==
    [c \in {"0", "1", "2", "3", "4", "5", "6", "7", "8", "9"} |->
        CASE c = "0" -> 0 [] c = "1" -> 1 [] c = "2" -> 2 [] c = "3" -> 3
          [] c = "4" -> 4 [] c = "5" -> 5 [] c = "6" -> 6 [] c = "7" -> 7
          [] c = "8" -> 8 [] c = "9" -> 9]

RECURSIVE NumValue(_)
NumValue(name) ==
    IF name = <<>> THEN 0
    ELSE 10 * NumValue(SubSeq(name, 1, Len(name) - 1))
         + DigitValue[name[Len(name)]]

\* An integer-like property name: the canonical decimal form of an array
\* index (below 2^32 - 1).  Object.keys lists these first, in ascending
\* numeric order.  Names of ten digits are not drawn here, so the upper
\* limit is stated on the length.
IsArrayIndex(name) ==
    /\ name # <<>>
    /\ Len(name) <= 9
    /\ \A i \in DOMAIN name : name[i] \in DOMAIN DigitValue
    /\ Len(name) > 1 => name[1] # "0"

RECURSIVE SortAscending(_)
SortAscending(names) ==
    IF names = {} THEN <<>>
    ELSE LET m == CHOOSE x \in names :
                      \A y \in names : NumValue(x) <= NumValue(y)
         IN  <<m>> \o SortAscending(names \ {m})

\* Object.keys(schema)
ObjectKeys(fields) ==
    SortAscending({f \in RangeOf(fields) : IsArrayIndex(f)})
    \o SelectSeq(fields, LAMBDA f : ~IsArrayIndex(f))

\* z.object(schema)
ZodObject(op, fields) ==
    [op |-> op, kind |-> "returned", named |-> Undefined,
     shape |-> RangeOf(fields)]

createServerEnv(schema) == ZodObject("createServerEnv", schema)

\* A variant of ClientKeyAccepted that tests a shorter prefix.
ClientKeyAcceptedLoosely(key) == StartsWith(key, <<"N", "E", "X", "T">>)

\* index.ts:142
ClientKeyAccepted(key) == StartsWith(key, NextPublic)

createClientEnv(schema) ==
    LET rejected == SelectSeq(ObjectKeys(schema),
                              LAMBDA key : ~ClientKeyAccepted(key))
    IN  IF rejected # <<>>
        THEN [op |-> "createClientEnv", kind |-> "threw",
              named |-> <<Head(rejected)>>, shape |-> {}]
        ELSE ZodObject("createClientEnv", schema)

----------------------------------------------------------------------------
(* Pure-function runs: the inputs are drawn in the initial state and one   *)
(* step applies the function.                                              *)

\* The sequences over alphabet of length at most n.
SeqsUpTo(alphabet, n) == UNION {[1..k -> alphabet] : k \in 0..n}

\* File texts of at most this many characters are parsed.
MaxLen == 4

ParseChars == {"K", "v", "=", "#", " ", "\"", "'", "\n"}

\* The examples of the file format: KEY="hello world", KEY='a', a comment,
\* a blank line, NOEQUALS, a value holding '='.
ParseExamples ==
    { <<"K", "=", "\"", "v", " ", "v", "\"">>,
      <<"K", "=", "'", "v", "'">>,
      <<"#", " ", "K", "=", "v", "\n", "\n", "K", "v">>,
      <<"K", "=", "v", "=", "v", "\r", "\n", "K", "=", "\"", "v", "'">>,
      TextA2B, TextB3 }

ParseInit ==
    /\ processEnv = EmptyObject
    /\ \E content \in SeqsUpTo(ParseChars, MaxLen) \cup ParseExamples :
           files = (DotEnv :> content)
    /\ CacheInit
    /\ callArg = <<DotEnv>>
    /\ callResult = Undefined

ParseFile ==
    /\ callResult = Undefined
    /\ callResult' = <<parseEnvFile(callArg[1])>>
    /\ UNCHANGED <<processEnv, files, cacheVars, callArg>>

ParseNext == ParseFile

ParseSpec == ParseInit /\ [][ParseNext]_vars

\* At most this many of the files exist.
MaxFiles == 3

LoadPaths ==
    { DotEnv, DotEnv \o DotLocal, CustomPath,
      DotEnv \o <<".">> \o DEVELOPMENT,
      DotEnv \o <<".">> \o DEVELOPMENT \o DotLocal,
      DotEnv \o <<".">> \o PRODUCTION,
      DotEnv \o <<".">> \o PRODUCTION \o DotLocal }

LoadTexts == {TextA1, TextA2B, TextB3}

LoadFiles ==
    UNION { [S -> LoadTexts] :
              S \in {T \in SUBSET LoadPaths : Cardinality(T) <= MaxFiles} }

LoadProcEnvs ==
    ProcEnvs({EmptyObject, KeyA :> <<"9">>}, {<<>>, DEVELOPMENT, PRODUCTION})

\* envPath: not given, the custom path, the empty string
LoadEnvPaths == {Undefined, <<CustomPath>>, <<<<>>>>}

LoadInit ==
    /\ processEnv \in LoadProcEnvs
    /\ files \in LoadFiles
    /\ CacheInit
    /\ callArg \in LoadEnvPaths
    /\ callResult = Undefined

\* index.ts:23-24
LoadAndMerge ==
    /\ callResult = Undefined
    /\ callResult' = << [envVars |-> loadEnvVars(callArg),
                         mergedEnv |-> MergeEnv(loadEnvVars(callArg))] >>
    /\ UNCHANGED <<processEnv, files, cacheVars, callArg>>

LoadNext == LoadAndMerge

LoadSpec == LoadInit /\ [][LoadNext]_vars

\* A shape declares at most this many fields.
MaxFields == 3

FieldNames ==
    { NextPublic \o <<"A">>, NextPublic, <<"N", "E", "X", "T">>,
      <<"S", "E", "C", "R", "E", "T">>, <<"7">>, <<"1", "0">> }

Shapes ==
    { f \in SeqsUpTo(FieldNames, MaxFields) :
        \A i, j \in DOMAIN f : i # j => f[i] # f[j] }

GuardInit ==
    /\ processEnv \in CacheProcEnvs
    /\ files \in CacheFiles
    /\ CacheInit
    /\ callArg \in Shapes
    /\ callResult = Undefined

CreateServerEnv ==
    /\ callResult = Undefined
    /\ callResult' = <<createServerEnv(callArg)>>
    /\ UNCHANGED <<processEnv, files, cacheVars, callArg>>

CreateClientEnv ==
    /\ callResult = Undefined
    /\ callResult' = <<createClientEnv(callArg)>>
    /\ UNCHANGED <<processEnv, files, cacheVars, callArg>>

GuardNext == CreateServerEnv \/ CreateClientEnv

GuardSpec == GuardInit /\ [][GuardNext]_vars

----------------------------------------------------------------------------
(* Properties of the runtime cache (Spec) *)

IsInitCall(call) == call.op \in {"initEnv", "createEnv"}

\* The schema of config rejects, with a ZodError, what a load under config
\* yields.
ZodFails(config) ==
    LET result == SchemaParse(config.schema,
                              Assign(loadEnvVars(config.envPath), processEnv))
    IN  ~result.ok /\ result.error = "zod"

NotTestMode == NodeEnv # <<TEST>>

\* C1: outside test mode, an initEnv call made once the cache is
\* initialized hands back the object the first successful call stored (with
\* the stored content unless a caller wrote through an initEnv result), loads
\* no file, runs no parse, invokes neither onError nor the reporter, and
\* leaves the snapshot, the flag and the process as they were.
C1_ReinitIsNoOp ==
    [][ (isInitialized /\ NotTestMode /\ last'.op = "initEnv") =>
          /\ last'.kind = "returned"
          /\ last'.ref = firstRef
          /\ runtimeEnv = firstRef
          /\ ~aliasWritten => heap'[last'.ref] = stored
          /\ ~last'.loaded
          /\ ~last'.parsed
          /\ last'.onErrorCalls = 0
          /\ last'.reporterCalls = 0
          /\ heap' = heap
          /\ runtimeEnv' = runtimeEnv
          /\ isInitialized' = isInitialized
          /\ stored' = stored
          /\ exitCode' = Undefined ]_vars

\* A later initEnv call outside test mode was given a config whose schema
\* would have failed, and returned.
C1_Witness ==
    /\ last.op = "initEnv"
    /\ last.kind = "returned"
    /\ NotTestMode
    /\ ~last.parsed
    /\ last.ref = firstRef
    /\ ZodFails(last.config[1])

\* C2: getEnv throws the not-initialized error exactly when no initEnv call
\* has returned normally; until then the cache is the empty object and the
\* flag is clear, and from then on the flag stays set and the cache holds
\* one validated object.
C2_ThrowsIffUninitialized ==
    /\ isInitialized <=> succeeded
    /\ last.op = "getEnv" =>
         /\ last.kind \in {"threw", "returned"}
         /\ (last.kind = "threw") <=> ~succeeded
         /\ last.kind = "threw" => last.error = "uninit"
    /\ ~succeeded => runtimeEnv = 1 /\ heap = <<EmptyObject>>
    /\ succeeded => runtimeEnv \in 2..Len(heap)
    /\ (succeeded /\ NotTestMode) => runtimeEnv = firstRef
    /\ (IsInitCall(last) /\ last.kind = "threw" /\ last.ref = 0 /\ ~succeeded)
         => ~isInitialized

\* getEnv threw before any successful initEnv.
C2_Witness ==
    /\ last.op = "getEnv"
    /\ last.kind = "threw"
    /\ last.error = "uninit"
    /\ ~isInitialized

\* C3: what getEnv returns is a new object, never the cached one, with the
\* cached content; whatever callers wrote to the values getEnv (or createEnv)
\* returned, it equals the snapshot stored at initialization.
C3_ReadsAreCopies ==
    (last.op = "getEnv" /\ last.kind = "returned") =>
        /\ last.ref # runtimeEnv
        /\ returnedBy[runtimeEnv] \cap {"getEnv", "createEnv"} = {}
        /\ heap[last.ref] = heap[runtimeEnv]
        /\ ~aliasWritten => heap[last.ref] = stored

\* getEnv returned after a caller wrote to a value an earlier read returned.
C3_Witness ==
    /\ last.op = "getEnv"
    /\ last.kind = "returned"
    /\ copyWritten
    /\ ~aliasWritten
    /\ \E r \in DOMAIN heap :
           /\ returnedBy[r] \cap {"getEnv", "createEnv"} # {}
           /\ heap[r] # stored

\* C4, as claimed: outside test mode, what getEnv or initEnv returns is the
\* snapshot as it was stored, whatever callers did to the values handed to
\* them before.
C4_SnapshotImmutable ==
    (NotTestMode /\ last.op \in {"getEnv", "initEnv"} /\ last.kind = "returned")
        => heap[last.ref] = stored

\* The case of C5 in a step: an initEnv (or createEnv) call ran the parse,
\* the schema failed with a ZodError, and the config supplies onError.
C5_Case(call) ==
    /\ IsInitCall(call)
    /\ call.parsed
    /\ call.config[1].onError # "none"
    /\ ZodFails(call.config[1])

C5_HandlerRan(call) ==
    /\ call.onErrorCalls = 1
    /\ call.reporterCalls = 0
    /\ call.kind = "threw"
    /\ call.ref = 0

\* C5, as claimed: the handler runs once, the reporter does not, the process
\* goes on, the cache is as before, and the call throws the ZodError.
C5_RethrowsOriginal ==
    [][ C5_Case(last') =>
          /\ C5_HandlerRan(last')
          /\ exitCode' = Undefined
          /\ UNCHANGED <<heap, runtimeEnv, isInitialized, stored>>
          /\ last'.error = "zod" ]_vars

\* C5, amended: the same, and the call throws the ZodError when the handler
\* returns; when the handler throws, the call throws the handler's error.
C5_RethrowsUnlessHandlerThrows ==
    [][ C5_Case(last') =>
          /\ C5_HandlerRan(last')
          /\ exitCode' = Undefined
          /\ UNCHANGED <<heap, runtimeEnv, isInitialized, stored>>
          /\ last'.error =
               IF last'.config[1].onError = "throws" THEN "handler" ELSE "zod"
        ]_vars

\* createEnv failed validation with a handler that returns, and threw the
\* ZodError without reaching getEnv.
C5_Witness ==
    /\ last.op = "createEnv"
    /\ C5_Case(last)
    /\ last.config[1].onError = "returns"
    /\ last.error = "zod"
    /\ exitCode = Undefined

\* The deployment mode as the claims resolve it: NODE_ENV, "development"
\* when unset.
ClaimedMode == IF NodeEnv = Undefined THEN DEVELOPMENT ELSE NodeEnv[1]

\* C6, as claimed: a validation failure without onError ends the process,
\* with code 0 exactly when allowMissingInDev is set and the resolved mode is
\* "development", else with code 1.
C6_ExitCode ==
    ( /\ IsInitCall(last)
      /\ last.parsed
      /\ last.config[1].onError = "none"
      /\ ZodFails(last.config[1]) ) =>
        /\ last.kind = "exited"
        /\ last.reporterCalls = 1
        /\ exitCode =
             << IF last.config[1].allowMissingInDev /\ ClaimedMode = DEVELOPMENT
                THEN 0 ELSE 1 >>

----------------------------------------------------------------------------
(* Properties of the loader and the merge (LoadSpec) *)

Loaded == callResult # Undefined

\* An explicit path is usable when it is given, not empty, and exists.
UsableEnvPath == Truthy(callArg) /\ existsSync(callArg[1])

\* .env, .env.<mode>, .env.local, .env.<mode>.local
LayerNames(mode) ==
    << <<".", "e", "n", "v">>,
       <<".", "e", "n", "v", ".">> \o mode,
       <<".", "e", "n", "v", ".", "l", "o", "c", "a", "l">>,
       <<".", "e", "n", "v", ".">> \o mode \o <<".", "l", "o", "c", "a", "l">> >>

Largest(S) == CHOOSE i \in S : \A j \in S : j <= i

\* For every key some existing layer defines: the value of the last existing
\* layer, in the order of layers, that defines it.
LastLayerWins(layers) ==
    LET existing == {i \in DOMAIN layers : existsSync(layers[i])}
        defining(k) == {i \in existing : Has(parseEnvFile(layers[i]), k)}
        keys == UNION {DOMAIN parseEnvFile(layers[i]) : i \in existing}
    IN  [k \in keys |-> parseEnvFile(layers[Largest(defining(k))])[k]]

LayersDecide(mode) ==
    (Loaded /\ ~UsableEnvPath) =>
        LET want == LastLayerWins(LayerNames(mode))
        IN  /\ callResult[1].envVars = want
            /\ \A k \in DOMAIN want \ DOMAIN processEnv :
                   /\ Has(callResult[1].mergedEnv, k)
                   /\ callResult[1].mergedEnv[k] = want[k]

\* The mode the loader resolves: NODE_ENV, "development" when NODE_ENV is
\* unset or the empty string.
ModeOrDevelopment ==
    IF NodeEnv = Undefined \/ NodeEnv = <<<<>>>> THEN DEVELOPMENT ELSE NodeEnv[1]

\* C8, as claimed: without a usable explicit path the file-derived value of
\* every key is that of the last existing layer of .env, .env.<mode>,
\* .env.local, .env.<mode>.local defining it, mode being NODE_ENV or
\* "development" when unset, and it is the merged value when the process
\* environment lacks the key.
C8_LayersByNodeEnv == LayersDecide(ClaimedMode)

\* C8, amended: the same with mode "development" also when NODE_ENV is the
\* empty string.
C8_LayersByResolvedMode == LayersDecide(ModeOrDevelopment)

\* Two existing layers define one key differently, a layer is missing, and
\* the later layer's value was loaded.
C8_Witness ==
    /\ Loaded
    /\ ~UsableEnvPath
    /\ LET layers == LayerNames(ModeOrDevelopment)
       IN  /\ \E i \in DOMAIN layers : ~existsSync(layers[i])
           /\ \E i, j \in DOMAIN layers :
                /\ i < j
                /\ existsSync(layers[i])
                /\ existsSync(layers[j])
                /\ \E k \in DOMAIN parseEnvFile(layers[i]) :
                     /\ Has(parseEnvFile(layers[j]), k)
                     /\ parseEnvFile(layers[j])[k] # parseEnvFile(layers[i])[k]
                     /\ callResult[1].envVars[k] = parseEnvFile(layers[j])[k]

\* The files a load reads.
ReadPaths ==
    IF UsableEnvPath THEN {callArg[1]}
    ELSE {p \in RangeOf(LayerNames(ModeOrDevelopment)) : existsSync(p)}

FileKeys == UNION {DOMAIN parseEnvFile(p) : p \in ReadPaths}

\* C7: the mapping given to the schema holds exactly the keys of the files
\* read and of the process environment; a key of the process environment has
\* the process environment's value, whichever files define it and with or
\* without an explicit path, and any other key has its file-derived value.
C7_ProcessEnvWins ==
    Loaded =>
        LET merged == callResult[1].mergedEnv
        IN  /\ DOMAIN merged = FileKeys \cup DOMAIN processEnv
            /\ \A k \in DOMAIN processEnv : merged[k] = processEnv[k]
            /\ \A k \in FileKeys \ DOMAIN processEnv :
                   merged[k] = callResult[1].envVars[k]

\* A key of the explicit file is also in the process environment, with
\* another value, and a second key comes from the file alone.
C7_Witness ==
    /\ Loaded
    /\ UsableEnvPath
    /\ \E k \in FileKeys \cap DOMAIN processEnv :
           /\ callResult[1].envVars[k] # processEnv[k]
           /\ callResult[1].mergedEnv[k] = processEnv[k]
    /\ FileKeys \ DOMAIN processEnv # {}

----------------------------------------------------------------------------
(* Properties of the file format (ParseSpec) *)

\* Wrapped in a matching pair of double or of single quotes: two quote
\* characters, the first and the last of the value.
WrappedInPair(value) ==
    /\ Len(value) >= 2
    /\ value[1] \in {"\"", "'"}
    /\ value[Len(value)] = value[1]

\* The entry a line yields as the format is described; a line with nothing
\* before its first '=' has no key and yields none.
DescribedLine(env, line) ==
    LET trimmed == Trim(line)
        eq      == IndexOf(trimmed, "=")
        key     == Trim(SubSeq(trimmed, 1, eq - 1))
        value   == Trim(SubSeq(trimmed, eq + 1, Len(trimmed)))
    IN  IF trimmed = <<>> \/ trimmed[1] = "#" \/ eq = 0 \/ key = <<>> THEN env
        ELSE (key :> IF WrappedInPair(value)
                     THEN SubSeq(value, 2, Len(value) - 1)
                     ELSE value) @@ env

RECURSIVE DescribedLines(_, _)
DescribedLines(env, lines) ==
    IF lines = <<>> THEN env
    ELSE DescribedLines(DescribedLine(env, Head(lines)), Tail(lines))

\* C9, as claimed: parseEnvFile yields the entries of the described format,
\* where one quote character alone is not a wrapped pair.
C9_ParsesAsDescribed ==
    callResult # Undefined =>
        callResult[1] = DescribedLines(EmptyObject, Split(files[DotEnv]))

----------------------------------------------------------------------------
(* Properties of the schema helpers (GuardSpec) *)

Rejected(name) == ~StartsWith(name, NextPublic)

PositionIn(fields, name) == CHOOSE i \in DOMAIN fields : fields[i] = name

\* Object.keys lists a before b.
ListedBefore(fields, a, b) ==
    \/ IsArrayIndex(a) /\ ~IsArrayIndex(b)
    \/ IsArrayIndex(a) /\ IsArrayIndex(b) /\ NumValue(a) < NumValue(b)
    \/ /\ ~IsArrayIndex(a)
       /\ ~IsArrayIndex(b)
       /\ PositionIn(fields, a) < PositionIn(fields, b)

CacheUntouched ==
    /\ heap = <<EmptyObject>>
    /\ runtimeEnv = 1
    /\ ~isInitialized
    /\ exitCode = Undefined
    /\ last = NoCall

RejectedFields == {f \in RangeOf(callArg) : Rejected(f)}

\* The rejected field that comes first in declaration order.
FirstDeclaredRejected ==
    CHOOSE f \in RejectedFields :
        \A g \in RejectedFields \ {f} :
            PositionIn(callArg, f) < PositionIn(callArg, g)

\* The rejected field that Object.keys lists first.
FirstListedRejected ==
    CHOOSE f \in RejectedFields :
        \A g \in RejectedFields \ {f} : ListedBefore(callArg, f, g)

\* What C10 says of a helper call, given the field an error is to name.
GuardProperty(expected) ==
    callResult # Undefined =>
        LET r == callResult[1]
        IN  /\ CacheUntouched
            /\ r.op = "createServerEnv" =>
                   r.kind = "returned" /\ r.shape = RangeOf(callArg)
            /\ r.op = "createClientEnv" =>
                 /\ (r.kind = "returned") <=> RejectedFields = {}
                 /\ r.kind = "returned" => r.shape = RangeOf(callArg)
                 /\ r.kind # "returned" =>
                      r.kind = "threw" /\ r.named = <<expected>>

====
